---- MODULE Spec2Model ----
(***************************************************************************)
(* state_commitment_layout: the layout calculator (app.py), the closed-form *)
(* sizer (layout_sizer.py), the best-layout selector (choose_best_layout.py)*)
(* and the sweeper (sweep_layouts.py), each a command-line process.  A      *)
(* state holds the running tool, its parsed arguments, its control position *)
(* and what it has produced so far.                                         *)
(***************************************************************************)
EXTENDS Integers, Sequences, FiniteSets, TLC

VARIABLES
    tool,      \* which script runs: "app", "sizer", "select", "sweep", "leafgen",
               \* or "call" for app.py's functions called as a library
    args,      \* the argparse Namespace (a record), fixed at process start
    pc,        \* control position of main()
    result,    \* what the process produced: exit status and payload
    layouts,   \* choose_best_layout.main: the list of LayoutResult so far
    calls,     \* the run_app invocations made so far, in order
    stderr     \* the per-candidate error lines printed so far (the fanout of each)

vars == <<tool, args, pc, result, layouts, calls, stderr>>

----------------------------------------------------------------------------
(* Bounds of the model *)

\* largest in-range leaf count given to app.py and to the selector
MaxLeaves == 200
\* largest leaf count given to layout_sizer.py
MaxSizerLeaves == 250
\* largest arity given to layout_sizer.py
MaxArity == 6

\* spec scenarios 1 and 2 use one million leaves
ScenarioLeaves == 10 ^ 6

None == [none |-> TRUE]

Max(a, b) == IF a >= b THEN a ELSE b
Min(a, b) == IF a <= b THEN a ELSE b

----------------------------------------------------------------------------
(* app.py *)

STYLES ==
    [aztec |-> [key |-> "aztec", name |-> "Aztec-style privacy rollup",
                hash_bytes |-> 32,
                note |-> "Optimised for zk commitments over encrypted state roots."],
     zama |-> [key |-> "zama", name |-> "Zama-style FHE compute stack",
               hash_bytes |-> 48,
               note |-> "FHE-heavy designs often tolerate slightly larger commitments."],
     soundness |-> [key |-> "soundness", name |-> "Soundness-first protocol lab",
                    hash_bytes |-> 32,
                    note |-> "Prefers simple, standard-sized commitments for verifiable semantics."]]

StyleKeys == DOMAIN STYLES

\* the fanouts estimate_tree and app.py's --fanout accept
AllowedFanouts == {2, 4, 8}

\* upper clamp of main(): clamp_int(args.leaves, 1, 10_000_000)
ClampHi == 10000000

clamp_int(x, lo, hi) == Max(lo, Min(hi, x))

\* A raised exception, as a value; Return wraps a returned list so that the
\* two can be told apart
Raise(kind, msg) == [error |-> kind, msg |-> msg]
Return(value) == [returned |-> value]
IsError(r) == "error" \in DOMAIN r

\* math.ceil(nodes / fanout): true division then ceiling.  nodes < 2^53 and
\* fanout is a power of two, so the float quotient is exact and the result is
\* the integer ceiling.  (variant: floor division)
CeilDivFloor(nodes, fanout) == nodes \div fanout
MathCeilDiv(nodes, fanout) == (nodes + fanout - 1) \div fanout

\* total_nodes += nodes, in the loop and once more after it for the root.
\* (variants: child slots counted instead of nodes; the root left out)
AccumulateSlots(total_nodes, nodes, fanout) == total_nodes + nodes * fanout
AccumulateSkipRoot(total_nodes, nodes, fanout) ==
    IF nodes = 1 THEN total_nodes ELSE total_nodes + nodes
Accumulate(total_nodes, nodes, fanout) == total_nodes + nodes

\* the while loop of estimate_tree and the statements after it
RECURSIVE EstimateLoop(_, _, _, _, _)
EstimateLoop(nodes, fanout, height, total_nodes, per_level) ==
    IF nodes > 1
    THEN EstimateLoop(MathCeilDiv(nodes, fanout), fanout, height + 1,
                      Accumulate(total_nodes, nodes, fanout),
                      Append(per_level, nodes))
    ELSE [height |-> height,
          totalNodes |-> Accumulate(total_nodes, nodes, fanout),
          nodesPerLevel |-> Append(per_level, nodes)]

\* (variant: the first guard written leaves < 0)
estimate_tree_allows_zero(leaves, fanout) ==
    IF leaves < 0 THEN Raise("ValueError", "leaves must be positive")
    ELSE IF fanout \notin AllowedFanouts
    THEN Raise("ValueError", "fanout must be one of 2, 4, or 8")
    ELSE EstimateLoop(leaves, fanout, 0, 0, <<>>)

estimate_tree(leaves, fanout) ==
    IF leaves <= 0 THEN Raise("ValueError", "leaves must be positive")
    ELSE IF fanout \notin AllowedFanouts
    THEN Raise("ValueError", "fanout must be one of 2, 4, or 8")
    ELSE EstimateLoop(leaves, fanout, 0, 0, <<>>)

\* per_proof_bytes = (proof_branch_length + 1) * hash_bytes  # path plus root
\* (variant: the path without the root)
PerProofBytesNoRoot(proof_branch_length, hash_bytes) ==
    proof_branch_length * hash_bytes
PerProofBytes(proof_branch_length, hash_bytes) ==
    (proof_branch_length + 1) * hash_bytes

build_layout(style, leaves, fanout) ==
    LET tree == estimate_tree(leaves, fanout) IN
    IF IsError(tree) THEN tree
    ELSE LET hash_bytes == style.hash_bytes
             proof_branch_length == tree.height
             per_proof_bytes == PerProofBytes(proof_branch_length, hash_bytes)
         IN [style |-> style.key,
             styleName |-> style.name,
             note |-> style.note,
             leaves |-> leaves,
             fanout |-> fanout,
             treeHeight |-> tree.height,
             totalNodes |-> tree.totalNodes,
             nodesPerLevel |-> tree.nodesPerLevel,
             hashBytes |-> hash_bytes,
             proofBranchLength |-> proof_branch_length,
             perProofBytes |-> per_proof_bytes,
             perProofBits |-> per_proof_bytes * 8,
             totalCommitmentBytes |-> tree.totalNodes * hash_bytes]

\* The app.py process for one command line: argparse rejects a style or a
\* fanout outside its choices with exit status 2; otherwise main() clamps the
\* leaves, builds the layout and prints it (as JSON with --json).
AppProcess(leaves, style, fanout, json) ==
    IF style \notin StyleKeys \/ fanout \notin AllowedFanouts
    THEN [returncode |-> 2, stdout |-> None]
    ELSE LET layout == build_layout(STYLES[style],
                                    clamp_int(leaves, 1, ClampHi), fanout)
         IN IF IsError(layout)
            THEN [returncode |-> 1, stdout |-> None]
            ELSE [returncode |-> 0,
                  stdout |-> [format |-> IF json THEN "json" ELSE "human",
                              layout |-> layout]]

\* command lines given to app.py
AppLeavesInputs == (-1 .. MaxLeaves) \cup {ScenarioLeaves, ClampHi + 1}
FanoutInputs == {2, 3, 4, 8, 16}

InitApp ==
    /\ tool = "app"
    /\ args \in [leaves : AppLeavesInputs, style : StyleKeys,
                 fanout : FanoutInputs, json : BOOLEAN]
    /\ pc = "start"
    /\ result = None
    /\ layouts = <<>>
    /\ calls = <<>>
    /\ stderr = <<>>

AppMain ==
    /\ tool = "app"
    /\ pc = "start"
    /\ result' = AppProcess(args.leaves, args.style, args.fanout, args.json)
    /\ pc' = "exited"
    /\ UNCHANGED <<tool, args, layouts, calls, stderr>>

NextApp == AppMain

SpecApp == InitApp /\ [][NextApp]_vars

\* the layout app.py printed, when it printed one
AppPrinted == tool = "app" /\ pc = "exited" /\ result.returncode = 0
AppLayout == result.stdout.layout

\* estimate_tree and build_layout called directly, without main()'s clamp and
\* argparse's choices in front of them
\* largest leaf count and largest fanout given to a direct call
MaxCallLeaves == 30
MaxCallFanout == 9

InitCall ==
    /\ tool = "call"
    /\ args \in [leaves : (-2 .. MaxCallLeaves) \cup {ScenarioLeaves},
                 fanout : 0 .. MaxCallFanout, style : StyleKeys]
    /\ pc = "start"
    /\ result = None
    /\ layouts = <<>>
    /\ calls = <<>>
    /\ stderr = <<>>

CallEstimateTree ==
    /\ tool = "call"
    /\ pc = "start"
    /\ result' = estimate_tree(args.leaves, args.fanout)
    /\ pc' = "estimate_tree"
    /\ UNCHANGED <<tool, args, layouts, calls, stderr>>

CallBuildLayout ==
    /\ tool = "call"
    /\ pc = "start"
    /\ result' = build_layout(STYLES[args.style], args.leaves, args.fanout)
    /\ pc' = "build_layout"
    /\ UNCHANGED <<tool, args, layouts, calls, stderr>>

NextCall == CallEstimateTree \/ CallBuildLayout

SpecCall == InitCall /\ [][NextCall]_vars

----------------------------------------------------------------------------
(* layout_sizer.py *)

\* arity ** k
RECURSIVE Pow(_, _)
Pow(arity, k) == IF k = 0 THEN 1 ELSE arity * Pow(arity, k - 1)

\* the least h >= 0 with arity^h >= leaves: the real-number value of
\* ceil(log_arity(leaves))
RECURSIVE CeilLogFrom(_, _, _, _)
CeilLogFrom(leaves, arity, h, p) ==
    IF p >= leaves THEN h ELSE CeilLogFrom(leaves, arity, h + 1, p * arity)

\* math.log(leaves, arity) is the binary64 quotient log(leaves) / log(arity).
\* When leaves = arity^k the real quotient is the integer k, and the rounded
\* quotient is k or one of its two float neighbours.  These are the pairs with
\* leaves <= 300000 and arity <= 19 for which CPython (IEEE-754 binary64)
\* yields the neighbour above k, e.g. math.log(125, 5) = 3.0000000000000004;
\* for every other pair of that range, and for leaves = 10^6 with arity <= 8,
\* math.ceil of the float quotient is the ceiling of the real quotient.
LogQuotientAboveInteger ==
    {<<125, 5>>, <<15625, 5>>, <<216, 6>>, <<46656, 6>>, <<16807, 7>>,
     <<5832, 18>>}

\* math.ceil(math.log(leaves, arity))
MathCeilLog(leaves, arity) ==
    CeilLogFrom(leaves, arity, 0, 1)
        + (IF <<leaves, arity>> \in LogQuotientAboveInteger THEN 1 ELSE 0)

compute_layout(leaves, arity) ==
    IF leaves <= 0 THEN [exit |-> 2, msg |-> "--leaves must be > 0"]
    ELSE IF arity <= 1 THEN [exit |-> 2, msg |-> "--arity must be >= 2"]
    ELSE LET height == MathCeilLog(leaves, arity)
             full_leaves == Pow(arity, height)
             padding_leaves == full_leaves - leaves
             total_nodes == (Pow(arity, height + 1) - 1) \div (arity - 1)
             internal_nodes == total_nodes - full_leaves
         IN [leaves |-> leaves,
             arity |-> arity,
             height |-> height,
             fullLeaves |-> full_leaves,
             paddingLeaves |-> padding_leaves,
             totalNodes |-> total_nodes,
             internalNodes |-> internal_nodes,
             leafNodes |-> full_leaves]

SizerLeavesInputs == (0 .. MaxSizerLeaves) \cup {ScenarioLeaves}
ArityInputs == 1 .. MaxArity

InitSizer ==
    /\ tool = "sizer"
    /\ args \in [leaves : SizerLeavesInputs, arity : ArityInputs, json : BOOLEAN]
    /\ pc = "start"
    /\ result = None
    /\ layouts = <<>>
    /\ calls = <<>>
    /\ stderr = <<>>

\* main() of layout_sizer.py: compute_layout exits the process with status 2
\* on invalid input, otherwise the layout is printed
SizerMain ==
    /\ tool = "sizer"
    /\ pc = "start"
    /\ LET layout == compute_layout(args.leaves, args.arity) IN
       result' = IF "exit" \in DOMAIN layout
                 THEN [returncode |-> layout.exit, stdout |-> None]
                 ELSE [returncode |-> 0,
                       stdout |-> [format |-> IF args.json THEN "json" ELSE "human",
                                   layout |-> layout]]
    /\ pc' = "exited"
    /\ UNCHANGED <<tool, args, layouts, calls, stderr>>

NextSizer == SizerMain

SpecSizer == InitSizer /\ [][NextSizer]_vars

SizerPrinted == tool = "sizer" /\ pc = "exited" /\ result.returncode = 0
SizerLayout == result.stdout.layout

----------------------------------------------------------------------------
(* The evaluation boundary: run_app, in choose_best_layout.py and in
   sweep_layouts.py (the two definitions are the same code) *)

\* largest metric value a foreign evaluator reports
MaxMetric == 1

METRICS ==
    {"treeHeight", "totalNodes", "proofBranchLength", "perProofBytes",
     "totalCommitmentBytes"}

\* What --app-path names: no file, this repository's app.py, or another
\* program that prints a JSON object
AppKinds == {"missing", "app.py", "other"}

\* The JSON objects a program other than app.py prints: the fields of the
\* interchange contract it keeps, here the leaves and fanout it was given and
\* at most one metric with a value in 0 .. MaxMetric
ForeignData(leaves, fanout, metric) ==
    {[leaves |-> leaves, fanout |-> fanout]}
    \cup {[k \in {"leaves", "fanout", metric} |->
              CASE k = "leaves" -> leaves
                [] k = "fanout" -> fanout
                [] OTHER -> v] : v \in 0 .. MaxMetric}

\* The outcomes of run_app(app_path, leaves, style, fanout): a RuntimeError
\* when the process exits non-zero or prints no JSON, otherwise the decoded
\* object.  json.loads(json.dumps(layout)) gives back the same strings,
\* integers and list of integers, so app.py's layout arrives field for field.
\* metric is the key a foreign program may or may not report.
run_app(app, leaves, style, fanout, metric) ==
    IF app = "app.py"
    THEN LET proc == AppProcess(leaves, style, fanout, TRUE) IN
         IF proc.returncode # 0
         THEN {Raise("RuntimeError", "app.py exited with non-zero status")}
         ELSE {proc.stdout.layout}
    ELSE {Raise("RuntimeError", "app.py exited with non-zero status"),
          Raise("RuntimeError", "Failed to parse JSON from app.py")}
         \cup ForeignData(leaves, fanout, metric)

----------------------------------------------------------------------------
(* choose_best_layout.py *)

\* longest --fanouts list given to the selector and the sweeper
MaxFanouts == 2
\* largest leaf count given to the selector
MaxSelLeaves == 9

\* a Python float that holds an integer below 2^53 exactly, or +infinity
Float(v) == [inf |-> FALSE, v |-> v]
Inf == [inf |-> TRUE, v |-> 0]
\* a < b on such floats
FloatLess(a, b) == ~a.inf /\ (b.inf \/ a.v < b.v)

\* data.get(metric) is None for a missing key and gives float("inf");
\* float(val) otherwise, which is exact for the integers of the model.
\* (variant: a missing key read as 0, as the table columns do)
metric_value_default0(data, metric) ==
    IF metric \notin DOMAIN data THEN Float(0) ELSE Float(data[metric])
metric_value(data, metric) ==
    IF metric \notin DOMAIN data THEN Inf ELSE Float(data[metric])

\* min(layouts, key=...): the running minimum changes only on a strictly
\* smaller key, so the first of several equal minima is returned.  The value
\* is the position of the returned element.
RECURSIVE MinFrom(_, _, _, _)
MinFrom(ls, metric, i, best) ==
    IF i > Len(ls) THEN best
    ELSE MinFrom(ls, metric, i + 1,
                 IF FloatLess(metric_value(ls[i].data, metric),
                              metric_value(ls[best].data, metric))
                 THEN i ELSE best)

\* variant: the last of several equal minima instead of the first
PyMinLast(ls, metric) ==
    CHOOSE b \in 1 .. Len(ls) :
        /\ \A j \in 1 .. Len(ls) :
              ~FloatLess(metric_value(ls[j].data, metric),
                         metric_value(ls[b].data, metric))
        /\ \A j \in (b + 1) .. Len(ls) :
              FloatLess(metric_value(ls[b].data, metric),
                        metric_value(ls[j].data, metric))
PyMin(ls, metric) == MinFrom(ls, metric, 2, 1)

RECURSIVE SeqsUpTo(_, _)
SeqsUpTo(S, n) ==
    IF n = 0 THEN {<<>>}
    ELSE LET shorter == SeqsUpTo(S, n - 1) IN
         shorter \cup {Append(q, x) : q \in shorter, x \in S}

\* --fanouts takes one or more integers; its default is 2 4 8 16
SelFanoutInputs == {2, 4, 8, 16}
FanoutLists ==
    (SeqsUpTo(SelFanoutInputs, MaxFanouts) \ {<<>>}) \cup {<<2, 4, 8, 16>>}

\* What a foreign evaluator prints does not depend on leaves or style, so one
\* value of each is given with it
InitSelect ==
    /\ tool = "select"
    /\ args \in [leaves : 1 .. MaxSelLeaves, style : StyleKeys,
                 fanouts : FanoutLists, metric : METRICS, app : AppKinds]
    /\ args.app # "app.py" => (args.leaves = 1 /\ args.style = "aztec")
    /\ pc = "start"
    /\ result = None
    /\ layouts = <<>>
    /\ calls = <<>>
    /\ stderr = <<>>

\* if not app_path.is_file(): sys.exit(1)
SelStart ==
    /\ tool = "select"
    /\ pc = "start"
    /\ IF args.app = "missing"
       THEN /\ pc' = "exited"
            /\ result' = [returncode |-> 1, error |-> "AppNotFound"]
       ELSE /\ pc' = "loop"
            /\ UNCHANGED result
    /\ UNCHANGED <<tool, args, layouts, calls, stderr>>

\* one iteration of: for f in args.fanouts
SelEval ==
    /\ tool = "select"
    /\ pc = "loop"
    /\ Len(calls) < Len(args.fanouts)
    /\ LET f == args.fanouts[Len(calls) + 1] IN
       /\ calls' = Append(calls, f)
       /\ \E data \in run_app(args.app, args.leaves, args.style, f, args.metric) :
             IF IsError(data)
             THEN /\ stderr' = Append(stderr, f)
                  /\ UNCHANGED layouts
             ELSE /\ layouts' = Append(layouts, [fanout |-> f, data |-> data])
                  /\ UNCHANGED stderr
    /\ UNCHANGED <<tool, args, pc, result>>

\* after the loop: exit 1 without layouts, otherwise choose and print
SelFinish ==
    /\ tool = "select"
    /\ pc = "loop"
    /\ Len(calls) = Len(args.fanouts)
    /\ pc' = "exited"
    /\ IF layouts = <<>>
       THEN result' = [returncode |-> 1, error |-> "NoViableCandidate"]
       ELSE LET b == PyMin(layouts, args.metric) IN
            result' = [returncode |-> 0,
                       best |-> layouts[b],
                       best_pos |-> b,
                       table |-> [j \in 1 .. Len(layouts) |->
                                    [fanout |-> layouts[j].fanout,
                                     mval |-> metric_value(layouts[j].data,
                                                           args.metric),
                                     mark |-> layouts[j].fanout
                                                = layouts[b].fanout]]]
    /\ UNCHANGED <<tool, args, layouts, calls, stderr>>

NextSelect == SelStart \/ SelEval \/ SelFinish

SpecSelect == InitSelect /\ [][NextSelect]_vars

\* the selector printed its table and its best fanout
SelChose == tool = "select" /\ pc = "exited" /\ result.returncode = 0

----------------------------------------------------------------------------
(* sweep_layouts.py *)

\* As committed the file does not compile: line 22 carries an unexpected
\* indent and line 134 sits at column 0 inside main().  The model reads both
\* at the indentation of the statements around them, which is the only
\* reading under which the file has any behaviour.

\* largest in-range --leaf-min and --leaf-max
MaxLeafBound == 70
\* largest --step
MaxStep == 3
\* the example of the --step help text: 1024 .. 65536 by 2
ScenarioLeafMin == 1024
ScenarioLeafMax == 65536

RECURSIVE FloorLog2(_)
FloorLog2(n) == IF n <= 1 THEN 0 ELSE 1 + FloorLog2(n \div 2)

\* math.log2(n) for 0 < n < 2^31, as the float's integer part and whether its
\* fraction is zero.  CPython's log2 is exact on powers of two, and below 2^48
\* no other integer's log2 rounds to a whole number.
MathLog2(n) ==
    LET e == FloorLog2(n) IN [int |-> e, is_integer |-> (Pow(2, e) = n)]

\* p = int(start_pow); while p <= int(end_pow): counts.append(2**p); p += step
RECURSIVE PowLoop(_, _, _, _)
PowLoop(p, end_pow, step, counts) ==
    IF p <= end_pow
    THEN PowLoop(p + step, end_pow, step, Append(counts, Pow(2, p)))
    ELSE counts

\* n = leaf_min; while n <= leaf_max: counts.append(int(n)); n *= 2
RECURSIVE DoubleLoop(_, _, _)
DoubleLoop(n, leaf_max, counts) ==
    IF n <= leaf_max
    THEN DoubleLoop(n * 2, leaf_max, Append(counts, n))
    ELSE counts

\* variant: the bound of the second loop exclusive (p < int(end_pow))
generate_leaf_counts_exclusive(leaf_min, leaf_max, step) ==
    IF leaf_min <= 0 \/ leaf_max < leaf_min
    THEN Raise("ValueError", "leaf-min must be > 0 and <= leaf-max")
    ELSE LET start_pow == MathLog2(leaf_min)
             end_pow == MathLog2(leaf_max)
         IN IF ~start_pow.is_integer \/ ~end_pow.is_integer
            THEN Return(DoubleLoop(leaf_min, leaf_max, <<>>))
            ELSE Return(PowLoop(start_pow.int, end_pow.int - 1, step, <<>>))

generate_leaf_counts(leaf_min, leaf_max, step) ==
    IF leaf_min <= 0 \/ leaf_max < leaf_min
    THEN Raise("ValueError", "leaf-min must be > 0 and <= leaf-max")
    ELSE LET start_pow == MathLog2(leaf_min)
             end_pow == MathLog2(leaf_max)
         IN IF ~start_pow.is_integer \/ ~end_pow.is_integer
            THEN Return(DoubleLoop(leaf_min, leaf_max, <<>>))
            ELSE Return(PowLoop(start_pow.int, end_pow.int, step, <<>>))

\* generate_leaf_counts called on its own.  --step is taken from 1 up: with a
\* step below 1 the second loop never ends.
LeafBoundInputs == (0 .. MaxLeafBound) \cup {ScenarioLeafMin, ScenarioLeafMax}

InitLeafGen ==
    /\ tool = "leafgen"
    /\ args \in [leaf_min : LeafBoundInputs, leaf_max : LeafBoundInputs,
                 step : 1 .. MaxStep]
    /\ pc = "start"
    /\ result = None
    /\ layouts = <<>>
    /\ calls = <<>>
    /\ stderr = <<>>

CallGenerateLeafCounts ==
    /\ tool = "leafgen"
    /\ pc = "start"
    /\ result' = generate_leaf_counts(args.leaf_min, args.leaf_max, args.step)
    /\ pc' = "returned"
    /\ UNCHANGED <<tool, args, layouts, calls, stderr>>

NextLeafGen == CallGenerateLeafCounts

SpecLeafGen == InitLeafGen /\ [][NextLeafGen]_vars

LeafGenReturned == tool = "leafgen" /\ pc = "returned" /\ "returned" \in DOMAIN result

\* the (leaves, fanout) pairs of: for leaves in leaf_counts: for fanout in
\* args.fanouts, in the order the loops visit them
RECURSIVE CrossProduct(_, _)
CrossProduct(leaf_counts, fanouts) ==
    IF leaf_counts = <<>> THEN <<>>
    ELSE [j \in 1 .. Len(fanouts) |->
             [leaves |-> Head(leaf_counts), fanout |-> fanouts[j]]]
         \o CrossProduct(Tail(leaf_counts), fanouts)

\* data.get(key): None for a missing key.  A row field is either an integer
\* or None; both are written as a record so that rows can be compared.
Some(v) == [is_none |-> FALSE, v |-> v]
NoneValue == [is_none |-> TRUE, v |-> 0]
DictGet(data, key) == IF key \in DOMAIN data THEN Some(data[key]) ELSE NoneValue

\* the row appended for one successful pair
SweepRow(pair, data) ==
    [leaves |-> pair.leaves,
     fanout |-> pair.fanout,
     treeHeight |-> DictGet(data, "treeHeight"),
     totalNodes |-> DictGet(data, "totalNodes"),
     proofBranchLength |-> DictGet(data, "proofBranchLength"),
     perProofBytes |-> DictGet(data, "perProofBytes"),
     totalCommitmentBytes |-> DictGet(data, "totalCommitmentBytes")]

\* The two loops of main(), flattened over the pairs in visiting order: each
\* pair is given to run_app; a failure is printed to stderr and the pair
\* skipped (continue), a success appends its row.  The value is the set of
\* possible (rows, errors) at the end, one per choice of run_app outcomes.
RECURSIVE SweepLoop(_, _, _, _, _)
SweepLoop(app, style, pairs, i, acc) ==
    IF i > Len(pairs) THEN {acc}
    ELSE UNION {
        SweepLoop(app, style, pairs, i + 1,
                  IF IsError(data)
                  THEN [acc EXCEPT !.errors = Append(@, pairs[i])]
                  ELSE [acc EXCEPT !.rows = Append(@, SweepRow(pairs[i], data))]) :
        data \in run_app(app, pairs[i].leaves, style, pairs[i].fanout,
                         "treeHeight")}

\* The attributes parse_args() of sweep_layouts.py defines on the Namespace
\* (app stands for app_path).  There is no --leaves argument.
SweepArgNames ==
    {"style", "json_summary", "leaf_min", "leaf_max", "step", "fanouts",
     "app", "raw_json"}

SweepFanoutLists == SeqsUpTo(SelFanoutInputs, MaxFanouts) \ {<<>>}

InitSweep ==
    /\ tool = "sweep"
    /\ args \in [style : StyleKeys, json_summary : BOOLEAN,
                 leaf_min : {0, 1, 3, 4}, leaf_max : {2, 4, MaxLeafBound},
                 step : 1 .. MaxStep, fanouts : SweepFanoutLists,
                 app : AppKinds, raw_json : {FALSE}]
    /\ DOMAIN args = SweepArgNames
    /\ args.app # "app.py" => args.style = "aztec"
    /\ pc = "start"
    /\ result = None
    /\ layouts = <<>>
    /\ calls = <<>>
    /\ stderr = <<>>

\* main() of sweep_layouts.py.  Its first statement after parse_args() reads
\* args.leaves, which the Namespace does not have: AttributeError, and the
\* process ends with a traceback before anything else runs.
SweepMain ==
    /\ tool = "sweep"
    /\ pc = "start"
    /\ pc' = "exited"
    /\ IF "leaves" \notin DOMAIN args
       THEN /\ result' = [returncode |-> 1, error |-> "AttributeError"]
            /\ UNCHANGED <<calls, stderr>>
       ELSE IF args.leaves <= 0
       THEN /\ result' = [returncode |-> 1, error |-> "InvalidInput"]
            /\ UNCHANGED <<calls, stderr>>
       ELSE IF args.app = "missing"
       THEN /\ result' = [returncode |-> 1, error |-> "AppNotFound"]
            /\ UNCHANGED <<calls, stderr>>
       ELSE LET generated ==
                    generate_leaf_counts(args.leaf_min, args.leaf_max, args.step)
            IN IF IsError(generated)
               THEN /\ result' = [returncode |-> 1, error |-> "ValueError"]
                    /\ UNCHANGED <<calls, stderr>>
               ELSE LET pairs == CrossProduct(generated.returned, args.fanouts) IN
                    \E run \in SweepLoop(args.app, args.style, pairs, 1,
                                         [rows |-> <<>>, errors |-> <<>>]) :
                        /\ calls' = pairs
                        /\ stderr' = run.errors
                        /\ result' = IF run.rows = <<>>
                                     THEN [returncode |-> 1,
                                           error |-> "NoDataCollected"]
                                     ELSE [returncode |-> 0, rows |-> run.rows]
    /\ UNCHANGED <<tool, args, layouts>>

NextSweep == SweepMain

SpecSweep == InitSweep /\ [][NextSweep]_vars

----------------------------------------------------------------------------
(* Every tool *)

Init ==
    InitApp \/ InitCall \/ InitSizer \/ InitSelect \/ InitLeafGen \/ InitSweep

Next ==
    NextApp \/ NextCall \/ NextSizer \/ NextSelect \/ NextLeafGen \/ NextSweep

Spec == Init /\ [][Next]_vars

----------------------------------------------------------------------------
(* Properties of app.py *)

RECURSIVE SumSeq(_)
SumSeq(s) == IF s = <<>> THEN 0 ELSE Head(s) + SumSeq(Tail(s))

\* q is the ceiling of n / d
IsCeilOf(q, n, d) == q * d >= n /\ (q - 1) * d < n

\* C1: for leaves >= 1 and fanout in {2,4,8}, nodesPerLevel starts with the
\* leaf count, ends with 1, and every later element is the ceiling of its
\* predecessor divided by the fanout.
C1_LevelsAreCeilReduction ==
    AppPrinted =>
        LET L == AppLayout.nodesPerLevel IN
        /\ AppLayout.leaves >= 1 /\ AppLayout.fanout \in {2, 4, 8}
        /\ Len(L) >= 1
        /\ L[1] = AppLayout.leaves
        /\ L[Len(L)] = 1
        /\ \A i \in 2 .. Len(L) : IsCeilOf(L[i], L[i - 1], AppLayout.fanout)

\* a tree of three levels or more with a level the fanout does not divide
C1_Witness ==
    /\ AppPrinted
    /\ Len(AppLayout.nodesPerLevel) >= 3
    /\ AppLayout.nodesPerLevel[1] % AppLayout.fanout # 0
    /\ AppLayout.nodesPerLevel[2] % AppLayout.fanout # 0

\* C2: height is len(nodesPerLevel) - 1 and totalNodes is the sum of all
\* levels, root included; a single leaf gives height 0, levels [1], total 1.
C2_HeightAndTotal ==
    AppPrinted =>
        /\ AppLayout.treeHeight = Len(AppLayout.nodesPerLevel) - 1
        /\ AppLayout.totalNodes = SumSeq(AppLayout.nodesPerLevel)
        /\ AppLayout.leaves = 1 =>
              /\ AppLayout.treeHeight = 0
              /\ AppLayout.nodesPerLevel = <<1>>
              /\ AppLayout.totalNodes = 1

C2_Witness ==
    /\ AppPrinted
    /\ AppLayout.treeHeight >= 3
    /\ AppLayout.totalNodes > AppLayout.leaves + 1

\* C3: for each catalog style (hash sizes 32, 48, 32) the layout has
\* proofBranchLength = treeHeight, perProofBytes = (treeHeight + 1) * hashBytes,
\* perProofBits = perProofBytes * 8, totalCommitmentBytes = totalNodes *
\* hashBytes, with treeHeight and totalNodes those of estimate_tree; one
\* million leaves, fanout 2, aztec gives height 20 and 672 proof bytes.
C3_LayoutArithmetic ==
    AppPrinted =>
        LET l == AppLayout
            tree == estimate_tree(l.leaves, l.fanout)
        IN
        /\ l.hashBytes = (CASE l.style = "aztec" -> 32
                            [] l.style = "zama" -> 48
                            [] l.style = "soundness" -> 32)
        /\ l.treeHeight = tree.height
        /\ l.totalNodes = tree.totalNodes
        /\ l.proofBranchLength = l.treeHeight
        /\ l.perProofBytes = (l.treeHeight + 1) * l.hashBytes
        /\ l.perProofBits = l.perProofBytes * 8
        /\ l.totalCommitmentBytes = l.totalNodes * l.hashBytes
        /\ (l.leaves = 1000000 /\ l.fanout = 2 /\ l.style = "aztec") =>
              (l.treeHeight = 20 /\ l.perProofBytes = 672)

C3_Witness ==
    /\ AppPrinted
    /\ AppLayout.leaves = 1000000
    /\ AppLayout.fanout = 2
    /\ AppLayout.style = "aztec"
    /\ AppLayout.perProofBytes = 672

\* C5: for fixed leaves and style, a larger fanout of {2,4,8} never gives a
\* larger treeHeight or a larger totalCommitmentBytes.
C5_FanoutMonotone ==
    AppPrinted =>
        \A f2 \in {2, 4, 8} :
            f2 > AppLayout.fanout =>
                LET wider == build_layout(STYLES[AppLayout.style],
                                          AppLayout.leaves, f2)
                IN /\ wider.treeHeight <= AppLayout.treeHeight
                   /\ wider.totalCommitmentBytes <= AppLayout.totalCommitmentBytes

\* a fanout-2 layout that fanout 8 makes strictly lower and strictly smaller
C5_Witness ==
    /\ AppPrinted
    /\ AppLayout.fanout = 2
    /\ LET wider == build_layout(STYLES[AppLayout.style], AppLayout.leaves, 8)
       IN /\ wider.treeHeight < AppLayout.treeHeight
          /\ wider.totalCommitmentBytes < AppLayout.totalCommitmentBytes

\* a direct call of estimate_tree or build_layout has ended
CallEnded == tool = "call" /\ pc \in {"estimate_tree", "build_layout"}
\* the call ended by raising ValueError, the code's InvalidInput
RaisedInvalidInput == "error" \in DOMAIN result /\ result.error = "ValueError"

\* C11: estimate_tree raises InvalidInput and returns no TreeShape whenever
\* leaves <= 0 or the fanout is not 2, 4 or 8 (leaves = 0, fanout = 3), and
\* build_layout raises the same error for the same inputs; for leaves >= 1
\* and a fanout of {2,4,8} neither raises.
C11_InvalidInputRejected ==
    CallEnded =>
        IF args.leaves <= 0 \/ args.fanout \notin {2, 4, 8}
        THEN /\ RaisedInvalidInput
             /\ "nodesPerLevel" \notin DOMAIN result
             /\ result.msg = (IF args.leaves <= 0
                              THEN "leaves must be positive"
                              ELSE "fanout must be one of 2, 4, or 8")
        ELSE /\ "error" \notin DOMAIN result
             /\ "nodesPerLevel" \in DOMAIN result
             /\ result.nodesPerLevel[1] = args.leaves

\* build_layout called with zero leaves and an allowed fanout raised
C11_Witness ==
    /\ tool = "call" /\ pc = "build_layout"
    /\ args.leaves = 0 /\ args.fanout = 2
    /\ RaisedInvalidInput

----------------------------------------------------------------------------
(* Properties of layout_sizer.py *)

\* C4: for leaves >= 1 and arity >= 2 the height is the least h >= 0 with
\* arity^h >= leaves, fullLeaves = arity^height >= leaves and paddingLeaves =
\* fullLeaves - leaves >= 0.
C4_HeightIsMinimal ==
    SizerPrinted =>
        LET l == SizerLayout IN
        /\ Pow(l.arity, l.height) >= l.leaves
        /\ l.height = 0 \/ Pow(l.arity, l.height - 1) < l.leaves
        /\ l.fullLeaves = Pow(l.arity, l.height)
        /\ l.fullLeaves >= l.leaves
        /\ l.paddingLeaves = l.fullLeaves - l.leaves
        /\ l.paddingLeaves >= 0
        /\ (l.leaves = 1000000 /\ l.arity = 4) =>
              (l.height = 10 /\ l.fullLeaves = 1048576 /\ l.paddingLeaves = 48576)

----------------------------------------------------------------------------
(* Properties of choose_best_layout.py *)

\* the layout at position j reports the metric, and its value
HasMetric(j) == args.metric \in DOMAIN layouts[j].data
MetricOf(j) == layouts[j].data[args.metric]
\* candidate j is strictly better than candidate k: a missing metric counts
\* as +infinity
StrictlyBetter(j, k) ==
    HasMetric(j) /\ (~HasMetric(k) \/ MetricOf(j) < MetricOf(k))

\* C6: with at least one successful candidate, the chosen one has the minimum
\* metric value of all successful candidates and is the first, in input fanout
\* order, to attain it; fanouts [2,4] with equal values select fanout 2.
C6_MinimumFirstWins ==
    SelChose =>
        LET b == result.best_pos IN
        /\ b \in 1 .. Len(layouts)
        /\ result.best = layouts[b]
        /\ \A j \in 1 .. Len(layouts) : ~StrictlyBetter(j, b)
        /\ \A j \in 1 .. (b - 1) : StrictlyBetter(b, j)
        /\ (/\ args.fanouts = <<2, 4>>
            /\ Len(layouts) = 2
            /\ ~StrictlyBetter(1, 2)
            /\ ~StrictlyBetter(2, 1)) => result.best.fanout = 2

\* the minimum is attained twice, first at a position after the first
C6_Witness ==
    /\ SelChose
    /\ result.best_pos >= 2
    /\ \E j \in (result.best_pos + 1) .. Len(layouts) :
          /\ HasMetric(j) /\ HasMetric(result.best_pos)
          /\ MetricOf(j) = MetricOf(result.best_pos)

\* C7 as stated: a candidate that lacks the metric is never the one chosen.
C7_MissingNeverChosen ==
    SelChose => HasMetric(result.best_pos)

\* C7, amended: a candidate that lacks the metric is listed with +infinity,
\* and is not chosen while some successful candidate reports the metric; when
\* none does, the first successful candidate is chosen.
C7_MissingChosenOnlyIfAllMissing ==
    SelChose =>
        /\ \A j \in 1 .. Len(layouts) :
              ~HasMetric(j) => result.table[j].mval = [inf |-> TRUE, v |-> 0]
        /\ (\E j \in 1 .. Len(layouts) : HasMetric(j))
              => HasMetric(result.best_pos)
        /\ (\A j \in 1 .. Len(layouts) : ~HasMetric(j))
              => result.best_pos = 1

\* the first candidate lacks the metric, a later one reports it and is chosen
C7_Witness ==
    /\ SelChose
    /\ ~HasMetric(1)
    /\ result.best_pos > 1
    /\ HasMetric(result.best_pos)

----------------------------------------------------------------------------
(* Properties of sweep_layouts.py *)

IsPowerOfTwo(n) == \E k \in 0 .. 30 : 2 ^ k = n
ExponentOf(n) == CHOOSE k \in 0 .. 30 : 2 ^ k = n

RECURSIVE IsMergeOf(_, _, _)
IsMergeOf(c, a, b) ==
    IF c = <<>> THEN a = <<>> /\ b = <<>>
    ELSE \/ a # <<>> /\ Head(a) = Head(c) /\ IsMergeOf(Tail(c), Tail(a), b)
         \/ b # <<>> /\ Head(b) = Head(c) /\ IsMergeOf(Tail(c), a, Tail(b))

\* a sweep over a valid leaf range with a program at --app-path
SweepRan ==
    /\ tool = "sweep" /\ pc = "exited"
    /\ args.app # "missing"
    /\ 0 < args.leaf_min /\ args.leaf_min <= args.leaf_max

SweepPairs ==
    CrossProduct(generate_leaf_counts(args.leaf_min, args.leaf_max,
                                      args.step).returned, args.fanouts)

SweepRowPairs ==
    IF "rows" \in DOMAIN result
    THEN [i \in 1 .. Len(result.rows) |->
             [leaves |-> result.rows[i].leaves, fanout |-> result.rows[i].fanout]]
    ELSE <<>>

\* C9: the sweep evaluates every (leafCount, fanout) pair once, leaf counts
\* outer and fanouts inner, and its rows are the pairs that succeeded, in
\* that order: failed pairs are left out, nothing is deduplicated or sorted.
C9_SweepCoversCrossProduct ==
    SweepRan =>
        /\ calls = SweepPairs
        /\ IsMergeOf(calls, SweepRowPairs, stderr)

\* the selector's half of C10
SelectorSkipsFailures ==
    (tool = "select" /\ pc = "exited" /\ args.app # "missing") =>
        /\ calls = args.fanouts
        /\ Len(layouts) + Len(stderr) = Len(args.fanouts)
        /\ (result.returncode # 0) <=> (layouts = <<>>)
        /\ layouts = <<>> => result.error = "NoViableCandidate"
        /\ layouts # <<>> => "best" \in DOMAIN result

\* the sweeper's half of C10
SweeperSkipsFailures ==
    SweepRan =>
        /\ calls = SweepPairs
        /\ (result.returncode # 0) <=> (Len(stderr) = Len(calls))
        /\ result.returncode # 0 => result.error = "NoDataCollected"
        /\ result.returncode = 0 => "rows" \in DOMAIN result

\* C10: a failed candidate never aborts the batch: the selector evaluates
\* every fanout and fails with NoViableCandidate exactly when all failed, the
\* sweeper evaluates every pair and fails with NoDataCollected exactly when
\* all failed; with one success the batch completes with a result.
C10_FailuresDoNotAbort ==
    SelectorSkipsFailures /\ SweeperSkipsFailures

====
